---- MODULE Spec2Model ----
(***************************************************************************)
(* Model of the dialogue tutorial (tutorials/tutorial3_seq2seq_dialog):    *)
(* the vocabulary, the dataset, the padding of sentences, the masked       *)
(* softmax and the decoding loops of Seq2SeqModel and                      *)
(* Seq2SeqAttentionModel; and of the feature conversion of the BERT        *)
(* tutorial (tutorials/tutorial4_finetuning_bert).                         *)
(*                                                                         *)
(* The module holds several state machines over one list of variables.     *)
(* Each specification starts one machine and leaves the variables of the   *)
(* others at their idle values:                                            *)
(*   SpecSoftmax  softmax_masked applied to one row of scores and a mask   *)
(*   SpecPad      _pad_sentnece / _process_sent / Seq2SeqModel.encode      *)
(*   SpecDecode   encode and the decoding loop of both models              *)
(*   SpecVocab    the operations of Vocab                                  *)
(*   SpecDataset  SubtitlesDialogDataset: construction and __getitem__     *)
(*   SpecTruncate the loop of _truncate_seq_pair                           *)
(*   SpecFeatures convert_examples_to_features on one example              *)
(***************************************************************************)
EXTENDS Integers, Sequences, FiniteSets, TLC

VARIABLES
    \* softmax_masked
    sm_pc,          \* "call" before the call, "done" after it
    sm_inputs,      \* one row of scores (dim 1 of inputs)
    sm_mask,        \* the row of mask, same length
    sm_attention,   \* the returned row of weights
    \* dataset padding and Seq2SeqModel.encode
    pd_pc,          \* "pad" -> "process" -> "encode" -> "done"
    pd_max_len,     \* SubtitlesDialogDataset.max_len
    pd_sent,        \* the token list given to _pad_sentnece / _process_sent
    pd_padded,      \* the list returned by _pad_sentnece
    pd_ids,         \* the row returned by _process_sent
    pd_last,        \* the index Seq2SeqModel.encode reads outputs at
    \* decode
    model,          \* "Seq2SeqModel" or "Seq2SeqAttentionModel"
    pc,             \* "encode" -> "loop" -> "stack" -> "done"
    max_len,        \* self.max_len
    teacher_forcing,\* self.teacher_forcing, in quarters (0..4 is 0.0..1.0)
    inputs,         \* the batch of padded queries
    targets,        \* None or the batch of padded responses
    inputs_mask,    \* the mask encode returns (attention model)
    last_index,     \* the index of h_last_hidden per row (Seq2SeqModel)
    i,              \* the loop variable of decode
    decoder_inputs, \* the batch of token ids fed to the next step
    outputs_logits, \* the list of logits appended so far
    att_normazlied, \* the attention weights of the last step
    fed,            \* history: the decoder_inputs each step embedded
    fed_from,       \* history: where each step's next input came from
    \* Vocab
    special_tokens, \* self.special_tokens
    token2id,       \* self.token2id
    id2token,       \* self.id2token
    token_counts,   \* self.token_counts: the counts
    count_order,    \* self.token_counts: the keys in insertion order
    nb_ops,         \* number of operations applied (bounds the run)
    last_op,        \* history: the last operation applied
    last_tokens,    \* history: the tokens the last operation went through, if it
                    \* was __init__, add_document or add_documents (else <<>>)
    last_max_size,  \* history: the max_size of the last operation, if it was
                    \* prune_vocab (else 0)
    added,          \* history: per token, the occurrences added since construction
    pruned,         \* history: prune_vocab has been called
    \* SubtitlesDialogDataset (self.vocab is the Vocab above)
    ds_pc,          \* "new" before __init__, "ready" after it
    ds_file,        \* the lines of the file, each as word_tokenize gives it
    ds_max_lines,   \* the argument max_lines
    ds_vocab_given, \* the argument vocab is not None
    lines,          \* self.lines
    max_lines,      \* self.max_lines
    ds_max_len,     \* self.max_len
    ds_index,       \* the index of the last __getitem__ (-1 before any)
    ds_item,        \* what it returned: <<query, response>>
    ds_error,       \* "none" or the exception it raised
    \* _truncate_seq_pair
    tr_pc,          \* "loop" while the loop runs, then "done" or "IndexError"
    tokens_a,       \* the list tokens_a
    tokens_b,       \* the list tokens_b
    max_length,     \* the argument max_length
    tr_a0,          \* history: tokens_a at the call
    tr_b0,          \* history: tokens_b at the call
    \* convert_examples_to_features, one example
    fe_pc,          \* "tokenize" -> "build" -> "pad" -> "done" or an exception
    fe_text_a,      \* example.text_a, as a list of words and blanks
    fe_text_b,      \* example.text_b likewise
    fe_b_given,     \* example.text_b is not None
    max_seq_length, \* the argument max_seq_length
    fe_tokens_a,    \* tokens_a
    fe_tokens_b,    \* tokens_b, when it is a list
    fe_b_list,      \* tokens_b is a list (not None)
    fe_tokens,      \* tokens
    segment_ids,    \* segment_ids
    input_ids,      \* input_ids
    input_mask      \* input_mask

softmaxVars == <<sm_pc, sm_inputs, sm_mask, sm_attention>>
padVars == <<pd_pc, pd_max_len, pd_sent, pd_padded, pd_ids, pd_last>>
decodeVars == <<model, pc, max_len, teacher_forcing, inputs, targets, inputs_mask,
                last_index, i, decoder_inputs, outputs_logits, att_normazlied, fed, fed_from>>
vocabVars == <<special_tokens, token2id, id2token, token_counts, count_order, nb_ops,
               last_op, last_tokens, last_max_size, added, pruned>>
datasetVars == <<ds_pc, ds_file, ds_max_lines, ds_vocab_given, lines, max_lines,
                 ds_max_len, ds_index, ds_item, ds_error>>
truncVars == <<tr_pc, tokens_a, tokens_b, max_length, tr_a0, tr_b0>>
featVars == <<fe_pc, fe_text_a, fe_text_b, fe_b_given, max_seq_length, fe_tokens_a,
              fe_tokens_b, fe_b_list, fe_tokens, segment_ids, input_ids, input_mask>>
vars == <<softmaxVars, padVars, decodeVars, vocabVars, datasetVars, truncVars, featVars>>

(***************************************************************************)
(* Helpers                                                                 *)
(***************************************************************************)
Min(a, b) == IF a < b THEN a ELSE b

Max(a, b) == IF a > b THEN a ELSE b

Range(s) == {s[k] : k \in DOMAIN s}

RECURSIVE SumSeq(_)
SumSeq(s) == IF s = <<>> THEN 0 ELSE Head(s) + SumSeq(Tail(s))

\* All sequences over S of length 0..n.
SeqsUpTo(S, n) == UNION {[1..k -> S] : k \in 0..n}

\* Python's None, where a list or a batch may stand instead: the empty list.
\* No batch of the model is empty, and a Vocab built with no special token is
\* built the same with None.
None == <<>>

(***************************************************************************)
(* Floating point values.  A float is a record: k is "fin", "inf" or       *)
(* "nan".  A finite value is the rational num/den; exponentials are kept   *)
(* in units of epsilon (1e-6), so that exp(0) is 1000000/1.  Rounding of   *)
(* finite values is not modelled; overflow to inf, underflow to 0 and the  *)
(* IEEE rules for inf and nan are.                                         *)
(***************************************************************************)
Fin(n, d) == [k |-> "fin", num |-> n, den |-> d]

Inf == [k |-> "inf", num |-> 0, den |-> 1]

NaN == [k |-> "nan", num |-> 0, den |-> 1]

\* softmax_masked's default epsilon=0.000001, in units of 1e-6.
epsilon == 1

\* torch.exp on a float32 score: e^x overflows to inf above 88.72 and
\* underflows to 0 below -103.97.
TorchExp(x) ==
    CASE x >= 89 -> Inf
      [] x <= -104 -> Fin(0, 1)
      [] x = -1 -> Fin(367879, 1)
      [] x = 0 -> Fin(1000000, 1)
      [] x = 1 -> Fin(2718282, 1)
      [] x = 2 -> Fin(7389056, 1)

\* inputs_exp * mask.float(): IEEE gives inf * 0 = nan.
MulMask(e, m) ==
    CASE e.k = "nan" -> NaN
      [] e.k = "inf" -> IF m = 0 THEN NaN ELSE Inf
      [] OTHER -> Fin(e.num * m, e.den)

\* a + b for two non-negative floats with denominator 1.
FAdd(a, b) ==
    CASE a.k = "nan" \/ b.k = "nan" -> NaN
      [] a.k = "inf" \/ b.k = "inf" -> Inf
      [] OTHER -> Fin(a.num + b.num, 1)

\* inputs_exp.sum(dim=dim) over one row: the sum of its first n values.
RECURSIVE FSumTo(_, _)
FSumTo(row, n) == IF n = 0 THEN Fin(0, 1) ELSE FAdd(FSumTo(row, n - 1), row[n])

FSum(row) == FSumTo(row, Len(row))

\* e / d for non-negative e and positive d: inf / inf = nan, x / inf = 0.
FDiv(e, d) ==
    CASE e.k = "nan" \/ d.k = "nan" -> NaN
      [] e.k = "inf" -> IF d.k = "inf" THEN NaN ELSE Inf
      [] d.k = "inf" -> Fin(0, 1)
      [] OTHER -> Fin(e.num, d.num)

IsZero(w) == w.k = "fin" /\ w.num = 0

(***************************************************************************)
(* softmax_masked(inputs, mask, dim=1, epsilon=0.000001), on one row: the  *)
(* sum is over dim 1 and the division broadcasts it back, so every row of  *)
(* a batch is computed from that row alone.                                *)
(***************************************************************************)
softmax_masked(row, mask) ==
    LET inputs_exp == [p \in DOMAIN row |-> MulMask(TorchExp(row[p]), mask[p])]
        inputs_exp_sum == FSum(inputs_exp)
    IN  [p \in DOMAIN row |-> FDiv(inputs_exp[p], FAdd(inputs_exp_sum, Fin(epsilon, 1)))]

\* The scores the rows are drawn from: ordinary scores, one whose
\* exponential underflows to 0 and one whose exponential overflows to inf.
Scores == {-200, -1, 0, 1, 100}

\* Longest row of scores.
MaxRow == 3

SoftmaxIdle ==
    /\ sm_pc = "idle"
    /\ sm_inputs = <<>>
    /\ sm_mask = <<>>
    /\ sm_attention = <<>>

InitSoftmaxVars ==
    /\ sm_pc = "call"
    /\ \E n \in 1..MaxRow :
        /\ sm_inputs \in [1..n -> Scores]
        /\ sm_mask \in [1..n -> {0, 1}]
    /\ sm_attention = <<>>

SoftmaxCall ==
    /\ sm_pc = "call"
    /\ sm_attention' = softmax_masked(sm_inputs, sm_mask)
    /\ sm_pc' = "done"
    /\ UNCHANGED <<sm_inputs, sm_mask>>
    /\ UNCHANGED <<padVars, decodeVars, vocabVars, datasetVars, truncVars, featVars>>

(***************************************************************************)
(* Vocab.  A vocabulary is a record of the object's fields.  token2id and  *)
(* token_counts are functions on their sets of keys; count_order keeps     *)
(* the keys of token_counts in insertion order, which Counter.most_common  *)
(* uses to break ties.                                                     *)
(***************************************************************************)
END_TOKEN == "<end>"

START_TOKEN == "<start>"

PAD_TOKEN == "<pad>"

UNK_TOKEN == "<unk>"

EmptyMap == [t \in {} |-> 0]

\* d[k] = v on a dict: overwrite or insert.
Put(d, key, v) == [t \in DOMAIN d \cup {key} |-> IF t = key THEN v ELSE d[t]]

\* Vocab._rebuild_id2token: {i: t for t, i in token2id.items()}.
RebuildId2Token(t2i) ==
    [n \in {t2i[t] : t \in DOMAIN t2i} |-> CHOOSE t \in DOMAIN t2i : t2i[t] = n]

\* The mutant of add_document's loop: the count is incremented inside the
\* `if`, for a token not yet in token2id only.
AddTokenCountInsideIf(v, token) ==
    [v EXCEPT
        !.token_counts = IF token \in DOMAIN v.token2id THEN @
                         ELSE Put(@, token, IF token \in DOMAIN @ THEN @[token] + 1 ELSE 1),
        !.count_order = IF token \in DOMAIN v.token_counts THEN @ ELSE Append(@, token),
        !.token2id = IF token \in DOMAIN @ THEN @
                     ELSE Put(@, token, Cardinality(DOMAIN @))]

\* The body of add_document's loop, for one token.
AddToken(v, token) ==
    [v EXCEPT
        !.token_counts = Put(@, token, IF token \in DOMAIN @ THEN @[token] + 1 ELSE 1),
        !.count_order = IF token \in DOMAIN v.token_counts THEN @ ELSE Append(@, token),
        !.token2id = IF token \in DOMAIN @ THEN @
                     ELSE Put(@, token, Cardinality(DOMAIN @))]

RECURSIVE AddTokens(_, _)
AddTokens(v, document) ==
    IF document = <<>> THEN v
    ELSE AddTokens(AddToken(v, Head(document)), Tail(document))

\* Vocab.add_document(document, rebuild).
add_document(v, document, rebuild) ==
    LET w == AddTokens(v, document)
    IN  IF rebuild THEN [w EXCEPT !.id2token = RebuildId2Token(w.token2id)] ELSE w

RECURSIVE AddEach(_, _)
AddEach(v, documents) ==
    IF documents = <<>> THEN v
    ELSE AddEach(add_document(v, Head(documents), FALSE), Tail(documents))

\* Vocab.add_documents(documents).
add_documents(v, documents) ==
    LET w == AddEach(v, documents)
    IN  [w EXCEPT !.id2token = RebuildId2Token(w.token2id)]

\* Vocab.__init__(special_tokens); special_tokens is a list or None.
VocabNew(special) ==
    LET v == [special_tokens |-> special, token2id |-> EmptyMap, id2token |-> <<>>,
              token_counts |-> EmptyMap, count_order |-> <<>>]
    IN  IF special # None THEN add_document(v, special, TRUE) ELSE v

\* Counter.most_common(n), n >= 0: the keys sorted by decreasing count, ties
\* in insertion order (heapq.nlargest is stable), cut to the first n.
RECURSIVE SortedByCount(_, _)
SortedByCount(counts, order) ==
    IF order = <<>> THEN <<>>
    ELSE LET best == CHOOSE p \in DOMAIN order :
                       /\ \A q \in DOMAIN order : counts[order[q]] <= counts[order[p]]
                       /\ \A q \in 1..(p - 1) : counts[order[q]] < counts[order[p]]
             rest == [q \in 1..(Len(order) - 1) |->
                        IF q < best THEN order[q] ELSE order[q + 1]]
         IN  <<order[best]>> \o SortedByCount(counts, rest)

\* The mutant of most_common: the first n keys, not sorted by count.
most_common_unsorted(v, n) ==
    SubSeq(v.count_order, 1, Min(n, Len(v.count_order)))

most_common(v, n) ==
    SubSeq(SortedByCount(v.token_counts, v.count_order), 1, Min(n, Len(v.count_order)))

\* The sequence s without the elements of D.
RECURSIVE Without(_, _)
Without(s, D) ==
    IF s = <<>> THEN <<>>
    ELSE IF Head(s) \in D THEN Without(Tail(s), D)
    ELSE <<Head(s)>> \o Without(Tail(s), D)

\* The orders in which a set can be iterated.
Orders(S) == {f \in [1..Cardinality(S) -> S] : Range(f) = S}

\* enumerate(tokens) into token2id from the first id `first`.
RECURSIVE Enumerate(_, _, _)
Enumerate(t2i, tokens, first) ==
    IF tokens = <<>> THEN t2i
    ELSE Enumerate(Put(t2i, Head(tokens), first), Tail(tokens), first + 1)

\* The mutant of prune_vocab: the most common tokens are numbered from 0,
\* without the offset len(self.special_tokens).
prune_vocab_no_offset(v, max_size, order) ==
    LET tokens_all == DOMAIN v.token2id
        tokens_special == Range(v.special_tokens)
        tokens_most_common == Range(most_common(v, max_size)) \ tokens_special
        tokens_to_delete == (tokens_all \ tokens_most_common) \ tokens_special
        counts == [t \in DOMAIN v.token_counts \ tokens_to_delete |-> v.token_counts[t]]
        specials == Enumerate(EmptyMap, v.special_tokens, 0)
        t2i == Enumerate(specials, order, 0)
    IN  [v EXCEPT !.token_counts = counts,
                  !.count_order = Without(@, tokens_to_delete),
                  !.token2id = t2i,
                  !.id2token = RebuildId2Token(t2i)]

\* Vocab.prune_vocab(max_size); `order` is the order in which the set
\* tokens_most_common is iterated.
prune_vocab(v, max_size, order) ==
    LET tokens_all == DOMAIN v.token2id
        tokens_special == Range(v.special_tokens)
        tokens_most_common == Range(most_common(v, max_size)) \ tokens_special
        tokens_to_delete == (tokens_all \ tokens_most_common) \ tokens_special
        counts == [t \in DOMAIN v.token_counts \ tokens_to_delete |-> v.token_counts[t]]
        specials == Enumerate(EmptyMap, v.special_tokens, 0)
        t2i == Enumerate(specials, order, Len(v.special_tokens))
    IN  [v EXCEPT !.token_counts = counts,
                  !.count_order = Without(@, tokens_to_delete),
                  !.token2id = t2i,
                  !.id2token = RebuildId2Token(t2i)]

\* tokens_most_common of prune_vocab, the set whose iteration order is chosen.
PruneKept(v, max_size) == Range(most_common(v, max_size)) \ Range(v.special_tokens)

\* len(vocab)
VocabLen(v) == Cardinality(DOMAIN v.token2id)

(***************************************************************************)
(* The Vocab machine: a vocabulary built with a list of distinct special   *)
(* tokens, then any operations on it.                                      *)
(***************************************************************************)
\* The lists of special tokens the notebooks build a Vocab with.
SpecialLists == {<<PAD_TOKEN, UNK_TOKEN>>,
                 <<PAD_TOKEN, START_TOKEN, END_TOKEN, UNK_TOKEN>>}

\* The words of the documents.
DocTokens == {"a", "b"}

\* Most tokens added to one vocabulary after its construction, over all the
\* calls.
MaxTokens == 3

\* Most documents in one add_documents call.
MaxDocs == 2

\* Largest max_size given to prune_vocab.
MaxSize == 4

\* Most operations applied to one vocabulary.
MaxOps == 3

\* The documents of at most n tokens: lists of words, and the document made
\* of a special token alone.
DocsWithin(n) ==
    SeqsUpTo(DocTokens, n) \cup (IF n >= 1 THEN {<<UNK_TOKEN>>} ELSE {})

\* The values of f over D, added up.
RECURSIVE SumOver(_, _)
SumOver(f, D) ==
    IF D = {} THEN 0
    ELSE LET t == CHOOSE x \in D : TRUE IN f[t] + SumOver(f, D \ {t})

\* The lists of at most n documents holding at most `budget` tokens in all.
RECURSIVE ListsWithin(_, _)
ListsWithin(n, budget) ==
    IF n = 0 THEN {<<>>}
    ELSE {<<>>} \cup
         UNION {{<<d>> \o rest : rest \in ListsWithin(n - 1, budget - Len(d))} :
                d \in DocsWithin(budget)}

\* The documents of one call as one list of tokens, in the order the loops
\* of add_documents and add_document go through them.
RECURSIVE Flatten(_)
Flatten(documents) ==
    IF documents = <<>> THEN <<>> ELSE Head(documents) \o Flatten(Tail(documents))

\* How many times each token occurs in a list of tokens.
Occurrences(tokens) ==
    [t \in Range(tokens) |-> Cardinality({k \in DOMAIN tokens : tokens[k] = t})]

\* The occurrences of `tokens` added to the tally `sofar`.
Tally(sofar, tokens) ==
    LET occ == Occurrences(tokens)
    IN  [t \in DOMAIN sofar \cup DOMAIN occ |->
            (IF t \in DOMAIN sofar THEN sofar[t] ELSE 0) +
            (IF t \in DOMAIN occ THEN occ[t] ELSE 0)]

\* The object as a record of its fields.
TheVocab == [special_tokens |-> special_tokens, token2id |-> token2id,
             id2token |-> id2token, token_counts |-> token_counts,
             count_order |-> count_order]

SetVocab(v) ==
    /\ special_tokens' = v.special_tokens
    /\ token2id' = v.token2id
    /\ id2token' = v.id2token
    /\ token_counts' = v.token_counts
    /\ count_order' = v.count_order

VocabIdle ==
    /\ special_tokens = <<>>
    /\ token2id = EmptyMap
    /\ id2token = <<>>
    /\ token_counts = EmptyMap
    /\ count_order = <<>>
    /\ nb_ops = 0
    /\ last_op = "idle"
    /\ last_tokens = <<>>
    /\ last_max_size = 0
    /\ added = EmptyMap
    /\ pruned = FALSE

InitVocabVars ==
    /\ \E special \in SpecialLists :
        LET v == VocabNew(special)
        IN  /\ special_tokens = v.special_tokens
            /\ token2id = v.token2id
            /\ id2token = v.id2token
            /\ token_counts = v.token_counts
            /\ count_order = v.count_order
    /\ nb_ops = 0
    /\ last_op = "__init__"
    /\ last_tokens = special_tokens
    /\ last_max_size = 0
    /\ added = Occurrences(special_tokens)
    /\ pruned = FALSE

\* The tokens added so far, after the construction.
TokensAdded == SumOver(added, DOMAIN added) - Len(special_tokens)

\* vocab.add_document(document)
AddDocument ==
    /\ nb_ops < MaxOps
    /\ \E document \in DocsWithin(MaxTokens - TokensAdded) :
        /\ SetVocab(add_document(TheVocab, document, TRUE))
        /\ last_tokens' = document
        /\ added' = Tally(added, document)
    /\ nb_ops' = nb_ops + 1
    /\ last_op' = "add_document"
    /\ last_max_size' = 0
    /\ UNCHANGED pruned
    /\ UNCHANGED <<softmaxVars, padVars, decodeVars, datasetVars, truncVars, featVars>>

\* vocab.add_documents(documents)
AddDocuments ==
    /\ nb_ops < MaxOps
    /\ \E documents \in ListsWithin(MaxDocs, MaxTokens - TokensAdded) :
        /\ SetVocab(add_documents(TheVocab, documents))
        /\ last_tokens' = Flatten(documents)
        /\ added' = Tally(added, Flatten(documents))
    /\ nb_ops' = nb_ops + 1
    /\ last_op' = "add_documents"
    /\ last_max_size' = 0
    /\ UNCHANGED pruned
    /\ UNCHANGED <<softmaxVars, padVars, decodeVars, datasetVars, truncVars, featVars>>

\* vocab.prune_vocab(max_size)
PruneVocab ==
    /\ nb_ops < MaxOps
    /\ \E max_size \in 0..MaxSize :
        /\ \E order \in Orders(PruneKept(TheVocab, max_size)) :
              SetVocab(prune_vocab(TheVocab, max_size, order))
        /\ last_max_size' = max_size
    /\ nb_ops' = nb_ops + 1
    /\ last_op' = "prune_vocab"
    /\ pruned' = TRUE
    /\ last_tokens' = <<>>
    /\ UNCHANGED added
    /\ UNCHANGED <<softmaxVars, padVars, decodeVars, datasetVars, truncVars, featVars>>

(***************************************************************************)
(* SubtitlesDialogDataset: padding a sentence and turning it into ids,     *)
(* and Seq2SeqModel.encode's choice of the summarizing position.           *)
(***************************************************************************)
\* The default max_vocab_size of SubtitlesDialogDataset.__init__.
max_vocab_size == 50000

\* Python's s[:n] on a list (a negative n counts from the end).
SliceTo(s, n) ==
    IF n >= 0 THEN SubSeq(s, 1, Min(n, Len(s)))
    ELSE SubSeq(s, 1, Max(Len(s) + n, 0))

\* Python's [x] * n (empty for n <= 0).
Repeat(x, n) == [k \in 1..Max(n, 0) |-> x]

\* The mutant of _pad_sentnece: the sentence is cut at max_len, not at
\* max_len - 1, before the end token is added.
pad_sentnece_cut_late(sent, maxlen) ==
    LET sent1 == SliceTo(sent, maxlen) \o <<END_TOKEN>>
        nb_pad == maxlen - Len(sent1)
    IN  sent1 \o Repeat(PAD_TOKEN, nb_pad)

\* SubtitlesDialogDataset._pad_sentnece(sent), with self.max_len = maxlen.
pad_sentnece(sent, maxlen) ==
    LET sent1 == SliceTo(sent, maxlen - 1) \o <<END_TOKEN>>
        nb_pad == maxlen - Len(sent1)
    IN  sent1 \o Repeat(PAD_TOKEN, nb_pad)

\* SubtitlesDialogDataset._process_sent(sent), with self.vocab = v.
process_sent(v, sent, maxlen) ==
    LET padded == pad_sentnece(sent, maxlen)
    IN  [k \in DOMAIN padded |->
            IF padded[k] \in DOMAIN v.token2id THEN v.token2id[padded[k]]
            ELSE v.token2id[UNK_TOKEN]]

\* The lines of the corpus the dataset's vocabulary is built from.
CorpusLines == << <<"a", "b">>, <<"a">> >>

\* The vocabulary SubtitlesDialogDataset.__init__ builds when none is given.
DatasetVocab ==
    LET v0 == VocabNew(<<PAD_TOKEN, START_TOKEN, END_TOKEN, UNK_TOKEN>>)
        v1 == add_documents(v0, CorpusLines)
    IN  prune_vocab(v1, max_vocab_size,
                    CHOOSE order \in Orders(PruneKept(v1, max_vocab_size)) : TRUE)

\* The model_params of the notebook.
vocab_size == VocabLen(DatasetVocab)

start_index == DatasetVocab.token2id[START_TOKEN]

end_index == DatasetVocab.token2id[END_TOKEN]

pad_index == DatasetVocab.token2id[PAD_TOKEN]

\* torch.sum(inputs != self.pad_index, dim=1), for one row.
InputsLength(row) == Cardinality({k \in DOMAIN row : row[k] # pad_index})

\* The mutant of the index Seq2SeqModel.encode reads: the length itself.
EncodeLastIndexNoMinusOne(row) == InputsLength(row)

\* Seq2SeqModel.encode: outputs[np.arange(batch_size), inputs_lengths - 1],
\* the index into one row (from 0, as in the code).
EncodeLastIndex(row) == InputsLength(row) - 1

\* Python's row[idx] on a sequence kept from position 1: a negative index
\* counts from the end.
PyPos(row, idx) == IF idx >= 0 THEN idx + 1 ELSE Len(row) + idx + 1

\* The tokens of the sentences: a word of the vocabulary, a word outside
\* it, and two special tokens written in the text itself.
SentTokens == {"a", "zzz", END_TOKEN, PAD_TOKEN}

\* Longest sentence.
MaxSent == 3

\* Largest max_len of the dataset.
MaxPadLen == 3

PadIdle ==
    /\ pd_pc = "idle"
    /\ pd_max_len = 0
    /\ pd_sent = <<>>
    /\ pd_padded = <<>>
    /\ pd_ids = <<>>
    /\ pd_last = 0

InitPadVars ==
    /\ pd_pc = "pad"
    /\ pd_max_len \in 1..MaxPadLen
    /\ pd_sent \in SeqsUpTo(SentTokens, MaxSent)
    /\ pd_padded = <<>>
    /\ pd_ids = <<>>
    /\ pd_last = 0

\* dataset._pad_sentnece(sent)
PadSentence ==
    /\ pd_pc = "pad"
    /\ pd_padded' = pad_sentnece(pd_sent, pd_max_len)
    /\ pd_pc' = "process"
    /\ UNCHANGED <<pd_max_len, pd_sent, pd_ids, pd_last>>
    /\ UNCHANGED <<softmaxVars, decodeVars, vocabVars, datasetVars, truncVars, featVars>>

\* dataset._process_sent(sent)
ProcessSent ==
    /\ pd_pc = "process"
    /\ pd_ids' = process_sent(DatasetVocab, pd_sent, pd_max_len)
    /\ pd_pc' = "encode"
    /\ UNCHANGED <<pd_max_len, pd_sent, pd_padded, pd_last>>
    /\ UNCHANGED <<softmaxVars, decodeVars, vocabVars, datasetVars, truncVars, featVars>>

\* Seq2SeqModel.encode on the row
EncodeRow ==
    /\ pd_pc = "encode"
    /\ pd_last' = EncodeLastIndex(pd_ids)
    /\ pd_pc' = "done"
    /\ UNCHANGED <<pd_max_len, pd_sent, pd_padded, pd_ids>>
    /\ UNCHANGED <<softmaxVars, decodeVars, vocabVars, datasetVars, truncVars, featVars>>

(***************************************************************************)
(* forward(inputs, targets) of Seq2SeqModel and Seq2SeqAttentionModel:     *)
(* encode, then the decoding loop.  The networks (embedding, GRU, linear   *)
(* layers) are arbitrary functions of their weights: the logits and the    *)
(* attention scores of a step are chosen freely.  np.random.rand() is a    *)
(* draw from [0, 1); the rate and the draws are kept in halves.            *)
(***************************************************************************)
\* Rows of a batch.
BatchSize == 2

\* Largest self.max_len.
MaxLen == 2

Rows == 1..BatchSize

\* self.teacher_forcing: 0.0, 0.5 and 1.0, in halves.
TeacherForcings == {0, 1, 2}

\* np.random.rand(): 0.0 and 0.5, in halves; 1.0 is never drawn.
Draws == {0, 1}

\* A sentence of n words, some of them outside the vocabulary.
Words(n) == [k \in 1..n |-> IF k % 2 = 1 THEN "a" ELSE "zzz"]

\* Batches of rows made by _process_sent, with sentences of several lengths.
SentBatches(maxlen) ==
    {[r \in Rows |-> process_sent(DatasetVocab, Words(r - 1), maxlen)],
     [r \in Rows |-> process_sent(DatasetVocab, Words(maxlen + 1 - r), maxlen)]}

\* The logits of one row: a function of the token ids 0..vocab_size-1.
\* One vector has its maximum at the end token, one has the same maximum at
\* two ids.
LogitRows ==
    <<[t \in 0..(vocab_size - 1) |-> IF t = end_index THEN 2 ELSE 0],
      [t \in 0..(vocab_size - 1) |-> IF t >= vocab_size - 2 THEN 1 ELSE 0]>>

\* The logits of a step (decoder_output_logit): every row the first vector,
\* every row the second, or the two in turn.
LogitBatches ==
    {[r \in Rows |-> LogitRows[1]], [r \in Rows |-> LogitRows[2]],
     [r \in Rows |-> LogitRows[1 + (r % 2)]]}

\* decoder_output_logit.argmax(dim=1) for one row: the first id of the
\* largest logit.
ArgMax(logit) ==
    CHOOSE t \in DOMAIN logit :
        /\ \A u \in DOMAIN logit : logit[u] <= logit[t]
        /\ \A u \in DOMAIN logit : u < t => logit[u] < logit[t]

\* The attention scores of a step (att_reduced), by kind: ordinary scores in
\* every row, or scores whose exponential overflows in every row.
ScoreKinds == {"mild", "overflow"}

att_reduced(kind, maxlen) ==
    [r \in Rows |-> [p \in 1..maxlen |-> IF kind = "overflow" THEN 100 ELSE (p + r) % 2]]

\* (inputs != self.pad_index).long() for one row.
MaskOf(row) == [p \in DOMAIN row |-> IF row[p] # pad_index THEN 1 ELSE 0]

\* targets[:, i] (i from 0).
Column(batch, idx) == [r \in DOMAIN batch |-> batch[r][PyPos(batch[r], idx)]]

DecodeIdle ==
    /\ model = "idle"
    /\ pc = "idle"
    /\ max_len = 0
    /\ teacher_forcing = 0
    /\ inputs = <<>>
    /\ targets = None
    /\ inputs_mask = None
    /\ last_index = None
    /\ i = 0
    /\ decoder_inputs = <<>>
    /\ outputs_logits = <<>>
    /\ att_normazlied = None
    /\ fed = <<>>
    /\ fed_from = <<>>

InitDecodeVars ==
    /\ model \in {"Seq2SeqModel", "Seq2SeqAttentionModel"}
    /\ pc = "encode"
    /\ max_len \in 1..MaxLen
    /\ teacher_forcing \in TeacherForcings
    /\ inputs \in SentBatches(max_len)
    /\ targets \in {None} \cup SentBatches(max_len)
    /\ inputs_mask = None
    /\ last_index = None
    /\ i = 0
    /\ decoder_inputs = <<>>
    /\ outputs_logits = <<>>
    /\ att_normazlied = None
    /\ fed = <<>>
    /\ fed_from = <<>>

\* self.encode(inputs) of forward
Encode ==
    /\ pc = "encode"
    /\ IF model = "Seq2SeqAttentionModel"
       THEN /\ inputs_mask' = [r \in Rows |-> MaskOf(inputs[r])]
            /\ UNCHANGED last_index
       ELSE /\ last_index' = [r \in Rows |-> EncodeLastIndex(inputs[r])]
            /\ UNCHANGED inputs_mask
    /\ pc' = "decode"
    /\ UNCHANGED <<model, max_len, teacher_forcing, inputs, targets, i, decoder_inputs,
                   outputs_logits, att_normazlied, fed, fed_from>>
    /\ UNCHANGED <<softmaxVars, padVars, vocabVars, datasetVars, truncVars, featVars>>

\* The mutant of decode's first input: the pad index.
DecodeBeginFromPad ==
    /\ pc = "decode"
    /\ outputs_logits' = <<>>
    /\ decoder_inputs' = [r \in Rows |-> pad_index]
    /\ i' = 0
    /\ pc' = "loop"
    /\ UNCHANGED <<model, max_len, teacher_forcing, inputs, targets, inputs_mask,
                   last_index, att_normazlied, fed, fed_from>>
    /\ UNCHANGED <<softmaxVars, padVars, vocabVars, datasetVars, truncVars, featVars>>

\* decode, up to the loop: outputs_logits = [], decoder_inputs all start_index
DecodeBegin ==
    /\ pc = "decode"
    /\ outputs_logits' = <<>>
    /\ decoder_inputs' = [r \in Rows |-> start_index]
    /\ i' = 0
    /\ pc' = "loop"
    /\ UNCHANGED <<model, max_len, teacher_forcing, inputs, targets, inputs_mask,
                   last_index, att_normazlied, fed, fed_from>>
    /\ UNCHANGED <<softmaxVars, padVars, vocabVars, datasetVars, truncVars, featVars>>

\* The mutant of the teacher-forcing test: rand() <= teacher_forcing.
UseTargetsInclusive(draw) == draw <= teacher_forcing /\ targets # None

\* The mutant of the teacher-forcing test: targets is not tested.
UseTargetsUntested(draw) == draw < teacher_forcing

\* np.random.rand() < self.teacher_forcing and targets is not None
UseTargets(draw) == draw < teacher_forcing /\ targets # None

\* One iteration of `for i in range(self.max_len)`.
DecodeStep ==
    /\ pc = "loop"
    /\ i < max_len
    /\ fed' = Append(fed, decoder_inputs)
    /\ IF model = "Seq2SeqAttentionModel"
       THEN \E kind \in ScoreKinds :
               att_normazlied' =
                   [r \in Rows |->
                       softmax_masked(att_reduced(kind, max_len)[r], inputs_mask[r])]
       ELSE UNCHANGED att_normazlied
    /\ \E decoder_output_logit \in LogitBatches, draw \in Draws :
        /\ IF UseTargets(draw)
           THEN /\ decoder_inputs' = Column(targets, i)
                /\ fed_from' = Append(fed_from, "targets")
           ELSE /\ decoder_inputs' = [r \in Rows |-> ArgMax(decoder_output_logit[r])]
                /\ fed_from' = Append(fed_from, "argmax")
        /\ outputs_logits' = Append(outputs_logits, decoder_output_logit)
    /\ i' = i + 1
    /\ UNCHANGED <<model, pc, max_len, teacher_forcing, inputs, targets, inputs_mask,
                   last_index>>
    /\ UNCHANGED <<softmaxVars, padVars, vocabVars, datasetVars, truncVars, featVars>>

\* The mutant of the end of the loop: it also ends once every row has
\* predicted the end token.
DecodeReturnAtEnd ==
    /\ pc = "loop"
    /\ \/ i >= max_len
       \/ i > 0 /\ \A r \in Rows : ArgMax(outputs_logits[i][r]) = end_index
    /\ pc' = "done"
    /\ UNCHANGED <<model, max_len, teacher_forcing, inputs, targets, inputs_mask,
                   last_index, i, decoder_inputs, outputs_logits, att_normazlied,
                   fed, fed_from>>
    /\ UNCHANGED <<softmaxVars, padVars, vocabVars, datasetVars, truncVars, featVars>>

\* The loop is over: torch.stack(outputs_logits, dim=1) and return.
DecodeReturn ==
    /\ pc = "loop"
    /\ i >= max_len
    /\ pc' = "done"
    /\ UNCHANGED <<model, max_len, teacher_forcing, inputs, targets, inputs_mask,
                   last_index, i, decoder_inputs, outputs_logits, att_normazlied,
                   fed, fed_from>>
    /\ UNCHANGED <<softmaxVars, padVars, vocabVars, datasetVars, truncVars, featVars>>

(***************************************************************************)
(* SubtitlesDialogDataset: __init__ reads the lines and takes or builds    *)
(* the vocabulary; __getitem__ returns a pair of consecutive lines.  The   *)
(* file is the list of its lines as word_tokenize returns them; the        *)
(* indices __getitem__ is called with are those of range(len(dataset)),    *)
(* as a sampler draws them.                                                *)
(***************************************************************************)
\* The lines of the files: an empty line, a line of one word, and a line
\* with a word that the vocabulary of another corpus does not hold.
FileLines == {<<>>, <<"a">>, <<"zzz", "a">>}

\* Most lines in a file.
MaxLines == 3

Files == SeqsUpTo(FileLines, MaxLines)

\* The loop over the file: lines are appended until i >= max_lines.
read_lines(file, maxlines) == SubSeq(file, 1, Min(Len(file), Max(maxlines, 0)))

\* Vocab(special_tokens=[...]) and vocab.add_documents(self.lines).
NewVocab(lns) ==
    add_documents(VocabNew(<<PAD_TOKEN, START_TOKEN, END_TOKEN, UNK_TOKEN>>), lns)

\* The mutant of the vocabulary of __init__: the lines are added to a given
\* vocabulary too.
dataset_vocab_adds(given, v, lns, order) ==
    IF given THEN add_documents(v, lns)
    ELSE prune_vocab(NewVocab(lns), max_vocab_size, order)

\* self.vocab after __init__: the given vocabulary, or a new one built from
\* the lines and pruned (`order` as in prune_vocab).
dataset_vocab(given, v, lns, order) ==
    IF given THEN v
    ELSE prune_vocab(NewVocab(lns), max_vocab_size, order)

\* The mutant of __len__: self.max_lines.
dataset_len_no_minus_one(self_max_lines) == self_max_lines

\* SubtitlesDialogDataset.__len__
dataset_len(self_max_lines) == self_max_lines - 1

\* SubtitlesDialogDataset.__getitem__(index), the indexed lines existing.
getitem(lns, v, maxlen, index) ==
    <<process_sent(v, lns[index + 1], maxlen), process_sent(v, lns[index + 2], maxlen)>>

DatasetIdle ==
    /\ ds_pc = "idle"
    /\ ds_file = <<>>
    /\ ds_max_lines = 0
    /\ ds_vocab_given = FALSE
    /\ lines = <<>>
    /\ max_lines = 0
    /\ ds_max_len = 0
    /\ ds_index = -1
    /\ ds_item = <<>>
    /\ ds_error = "none"

\* Before __init__: a file, the arguments, and either no vocabulary or the
\* vocabulary of a dataset built earlier from another corpus.
InitDatasetVars ==
    /\ ds_pc = "new"
    /\ ds_file \in Files
    /\ ds_max_lines \in 0..(MaxLines + 1)
    /\ ds_vocab_given \in BOOLEAN
    /\ lines = <<>>
    /\ max_lines = 0
    /\ ds_max_len \in 1..MaxPadLen
    /\ ds_index = -1
    /\ ds_item = <<>>
    /\ ds_error = "none"
    /\ LET v == IF ds_vocab_given THEN DatasetVocab ELSE VocabNew(None)
       IN  /\ special_tokens = v.special_tokens
           /\ token2id = v.token2id
           /\ id2token = v.id2token
           /\ token_counts = v.token_counts
           /\ count_order = v.count_order
    /\ nb_ops = 0
    /\ last_op = "idle"
    /\ last_tokens = <<>>
    /\ last_max_size = 0
    /\ added = EmptyMap
    /\ pruned = FALSE

\* SubtitlesDialogDataset.__init__(filename, vocab, max_lines, max_len)
DatasetInit ==
    /\ ds_pc = "new"
    /\ LET lns == read_lines(ds_file, ds_max_lines)
       IN  /\ lines' = lns
           /\ max_lines' = Min(Len(lns), ds_max_lines)
           /\ \E order \in Orders(PruneKept(NewVocab(lns), max_vocab_size)) :
                 SetVocab(dataset_vocab(ds_vocab_given, TheVocab, lns, order))
    /\ ds_pc' = "ready"
    /\ UNCHANGED <<ds_file, ds_max_lines, ds_vocab_given, ds_max_len, ds_index, ds_item,
                   ds_error>>
    /\ UNCHANGED <<nb_ops, last_op, last_tokens, last_max_size, added, pruned>>
    /\ UNCHANGED <<softmaxVars, padVars, decodeVars, truncVars, featVars>>

\* dataset[index], for an index of range(len(dataset))
GetItem ==
    /\ ds_pc = "ready"
    /\ \E index \in 0..(dataset_len(max_lines) - 1) :
        /\ ds_index' = index
        /\ IF index + 2 <= Len(lines)
           THEN /\ ds_item' = getitem(lines, TheVocab, ds_max_len, index)
                /\ ds_error' = "none"
           ELSE /\ ds_item' = <<>>
                /\ ds_error' = "IndexError"
    /\ UNCHANGED <<ds_pc, ds_file, ds_max_lines, ds_vocab_given, lines, max_lines,
                   ds_max_len>>
    /\ UNCHANGED <<vocabVars, softmaxVars, padVars, decodeVars, truncVars, featVars>>

TruncIdle ==
    /\ tr_pc = "idle"
    /\ tokens_a = <<>>
    /\ tokens_b = <<>>
    /\ max_length = 0
    /\ tr_a0 = <<>>
    /\ tr_b0 = <<>>

FeatIdle ==
    /\ fe_pc = "idle"
    /\ fe_text_a = <<>>
    /\ fe_text_b = <<>>
    /\ fe_b_given = FALSE
    /\ max_seq_length = 0
    /\ fe_tokens_a = <<>>
    /\ fe_tokens_b = <<>>
    /\ fe_b_list = FALSE
    /\ fe_tokens = <<>>
    /\ segment_ids = <<>>
    /\ input_ids = <<>>
    /\ input_mask = <<>>

(***************************************************************************)
(* _truncate_seq_pair(tokens_a, tokens_b, max_length) of the BERT          *)
(* tutorial: one action per iteration of its `while True` loop.            *)
(***************************************************************************)
\* The word pieces of the token lists.
PairTokens == {"x", "y"}

\* Longest token list given to _truncate_seq_pair.
MaxPair == 3

\* list.pop() on a list that is not empty: the list without its last item.
PopLast(s) == SubSeq(s, 1, Len(s) - 1)

\* The mutant of the loop's exit test: total_length < max_length.
within_max_length_strict(a, b, m) == Len(a) + Len(b) < m

\* total_length <= max_length, the test that breaks the loop.
within_max_length(a, b, m) == Len(a) + Len(b) <= m

\* The mutant of the choice of the list to pop: len(tokens_a) >= len(tokens_b).
pops_a_on_tie(a, b) == Len(a) >= Len(b)

\* len(tokens_a) > len(tokens_b): tokens_a.pop(), else tokens_b.pop().
pops_a(a, b) == Len(a) > Len(b)

\* _truncate_seq_pair as a whole: the two lists when it returns, or the
\* IndexError of pop() on an empty list.
RECURSIVE truncate_seq_pair(_, _, _)
truncate_seq_pair(a, b, m) ==
    IF within_max_length(a, b, m) THEN [a |-> a, b |-> b, error |-> "none"]
    ELSE IF pops_a(a, b) THEN truncate_seq_pair(PopLast(a), b, m)
    ELSE IF b = <<>> THEN [a |-> a, b |-> b, error |-> "IndexError"]
    ELSE truncate_seq_pair(a, PopLast(b), m)

InitTruncVars ==
    /\ tr_pc = "loop"
    /\ tokens_a \in SeqsUpTo(PairTokens, MaxPair)
    /\ tokens_b \in SeqsUpTo(PairTokens, MaxPair)
    /\ max_length \in (-1)..(2 * MaxPair)
    /\ tr_a0 = tokens_a
    /\ tr_b0 = tokens_b

\* One iteration that ends the loop: total_length <= max_length, break.
TruncBreak ==
    /\ tr_pc = "loop"
    /\ within_max_length(tokens_a, tokens_b, max_length)
    /\ tr_pc' = "done"
    /\ UNCHANGED <<tokens_a, tokens_b, max_length, tr_a0, tr_b0>>
    /\ UNCHANGED <<softmaxVars, padVars, decodeVars, vocabVars, datasetVars, featVars>>

\* One iteration that pops a token (or fails to, on an empty list).
TruncPop ==
    /\ tr_pc = "loop"
    /\ ~ within_max_length(tokens_a, tokens_b, max_length)
    /\ IF pops_a(tokens_a, tokens_b)
       THEN /\ tokens_a' = PopLast(tokens_a)
            /\ UNCHANGED <<tokens_b, tr_pc>>
       ELSE IF tokens_b = <<>>
       THEN /\ tr_pc' = "IndexError"
            /\ UNCHANGED <<tokens_a, tokens_b>>
       ELSE /\ tokens_b' = PopLast(tokens_b)
            /\ UNCHANGED <<tokens_a, tr_pc>>
    /\ UNCHANGED <<max_length, tr_a0, tr_b0>>
    /\ UNCHANGED <<softmaxVars, padVars, decodeVars, vocabVars, datasetVars, featVars>>

(***************************************************************************)
(* convert_examples_to_features on one example.  A text is the list of     *)
(* its words and blanks; the tokenizer (a library) returns the words and   *)
(* gives every token an id that is not 0, the id of the padding.           *)
(***************************************************************************)
\* What a text is made of: a word and a blank.
TextItems == {"x", " "}

\* Longest text.
MaxText == 3

\* Largest max_seq_length.
MaxSeq == 6

Texts == SeqsUpTo(TextItems, MaxText)

\* tokenizer.tokenize(text)
tokenize(text) == Without(text, {" "})

\* tokenizer.convert_tokens_to_ids(tokens), with the ids of the BERT vocabulary.
TokenId(t) == CASE t = "[CLS]" -> 101 [] t = "[SEP]" -> 102 [] OTHER -> 1060

convert_tokens_to_ids(toks) == [k \in DOMAIN toks |-> TokenId(toks[k])]

\* The mutant of the room left for a pair: max_seq_length - 2.
pair_room_two(maxseq) == maxseq - 2

\* The room left for a pair of texts: "Account for [CLS], [SEP], [SEP]".
pair_room(maxseq) == maxseq - 3

\* The mutant of the padding: ones.
padding_ones(maxseq, ids) == Repeat(1, maxseq - Len(ids))

\* padding = [0] * (max_seq_length - len(input_ids))
padding(maxseq, ids) == Repeat(0, maxseq - Len(ids))

InitFeatVars ==
    /\ fe_pc = "tokenize"
    /\ fe_text_a \in Texts
    /\ fe_b_given \in BOOLEAN
    /\ fe_text_b \in (IF fe_b_given THEN Texts ELSE {<<>>})
    /\ max_seq_length \in 2..MaxSeq
    /\ fe_tokens_a = <<>>
    /\ fe_tokens_b = <<>>
    /\ fe_b_list = FALSE
    /\ fe_tokens = <<>>
    /\ segment_ids = <<>>
    /\ input_ids = <<>>
    /\ input_mask = <<>>

\* tokens_a and tokens_b: tokenize, then truncate the pair or the single text.
FeTokenize ==
    /\ fe_pc = "tokenize"
    /\ IF fe_b_given /\ fe_text_b # <<>>
       THEN LET r == truncate_seq_pair(tokenize(fe_text_a), tokenize(fe_text_b),
                                       pair_room(max_seq_length))
            IN  /\ fe_tokens_a' = r.a
                /\ fe_tokens_b' = r.b
                /\ fe_b_list' = TRUE
                /\ fe_pc' = IF r.error = "none" THEN "build" ELSE r.error
       ELSE /\ fe_tokens_a' =
                  IF Len(tokenize(fe_text_a)) > max_seq_length - 2
                  THEN SliceTo(tokenize(fe_text_a), max_seq_length - 2)
                  ELSE tokenize(fe_text_a)
            /\ fe_tokens_b' = <<>>
            /\ fe_b_list' = FALSE
            /\ fe_pc' = "build"
    /\ UNCHANGED <<fe_text_a, fe_text_b, fe_b_given, max_seq_length, fe_tokens, segment_ids,
                   input_ids, input_mask>>
    /\ UNCHANGED <<softmaxVars, padVars, decodeVars, vocabVars, datasetVars, truncVars>>

\* tokens, segment_ids, input_ids and input_mask before the padding.
FeBuild ==
    /\ fe_pc = "build"
    /\ LET toks0 == <<"[CLS]">> \o fe_tokens_a \o <<"[SEP]">>
           segs0 == Repeat(0, Len(toks0))
           with_b == fe_b_list /\ fe_tokens_b # <<>>
           toks == IF with_b THEN toks0 \o fe_tokens_b \o <<"[SEP]">> ELSE toks0
           segs == IF with_b THEN segs0 \o Repeat(1, Len(fe_tokens_b) + 1) ELSE segs0
       IN  /\ fe_tokens' = toks
           /\ segment_ids' = segs
           /\ input_ids' = convert_tokens_to_ids(toks)
           /\ input_mask' = Repeat(1, Len(toks))
    /\ fe_pc' = "pad"
    /\ UNCHANGED <<fe_text_a, fe_text_b, fe_b_given, max_seq_length, fe_tokens_a,
                   fe_tokens_b, fe_b_list>>
    /\ UNCHANGED <<softmaxVars, padVars, decodeVars, vocabVars, datasetVars, truncVars>>

\* The zero padding and the three assertions.
FePad ==
    /\ fe_pc = "pad"
    /\ LET pad == padding(max_seq_length, input_ids)
       IN  /\ input_ids' = input_ids \o pad
           /\ input_mask' = input_mask \o pad
           /\ segment_ids' = segment_ids \o pad
    /\ fe_pc' = IF /\ Len(input_ids') = max_seq_length
                   /\ Len(input_mask') = max_seq_length
                   /\ Len(segment_ids') = max_seq_length
                THEN "done" ELSE "AssertionError"
    /\ UNCHANGED <<fe_text_a, fe_text_b, fe_b_given, max_seq_length, fe_tokens_a,
                   fe_tokens_b, fe_b_list, fe_tokens>>
    /\ UNCHANGED <<softmaxVars, padVars, decodeVars, vocabVars, datasetVars, truncVars>>

(***************************************************************************)
(* The specifications.                                                     *)
(***************************************************************************)
InitSoftmax == InitSoftmaxVars /\ PadIdle /\ DecodeIdle /\ VocabIdle /\ DatasetIdle /\ TruncIdle /\ FeatIdle

NextSoftmax == SoftmaxCall

SpecSoftmax == InitSoftmax /\ [][NextSoftmax]_vars

InitPad == SoftmaxIdle /\ InitPadVars /\ DecodeIdle /\ VocabIdle /\ DatasetIdle /\ TruncIdle /\ FeatIdle

NextPad == PadSentence \/ ProcessSent \/ EncodeRow

SpecPad == InitPad /\ [][NextPad]_vars

InitDecode == SoftmaxIdle /\ PadIdle /\ InitDecodeVars /\ VocabIdle /\ DatasetIdle /\ TruncIdle /\ FeatIdle

NextDecode == Encode \/ DecodeBegin \/ DecodeStep \/ DecodeReturn

SpecDecode == InitDecode /\ [][NextDecode]_vars

InitVocab == SoftmaxIdle /\ PadIdle /\ DecodeIdle /\ InitVocabVars /\ DatasetIdle /\ TruncIdle /\ FeatIdle

NextVocab == AddDocument \/ AddDocuments \/ PruneVocab

SpecVocab == InitVocab /\ [][NextVocab]_vars

InitDataset == SoftmaxIdle /\ PadIdle /\ DecodeIdle /\ InitDatasetVars /\ TruncIdle /\ FeatIdle

NextDataset == DatasetInit \/ GetItem

SpecDataset == InitDataset /\ [][NextDataset]_vars

InitTruncate == SoftmaxIdle /\ PadIdle /\ DecodeIdle /\ VocabIdle /\ DatasetIdle /\ InitTruncVars /\ FeatIdle

NextTruncate == TruncBreak \/ TruncPop

SpecTruncate == InitTruncate /\ [][NextTruncate]_vars

InitFeatures == SoftmaxIdle /\ PadIdle /\ DecodeIdle /\ VocabIdle /\ DatasetIdle /\ TruncIdle /\ InitFeatVars

NextFeatures == FeTokenize \/ FeBuild \/ FePad

SpecFeatures == InitFeatures /\ [][NextFeatures]_vars

(***************************************************************************)
(* The claims.                                                             *)
(***************************************************************************)
\* The numerators of a row of finite weights, added up.
RowNumSum(row) == SumSeq([p \in DOMAIN row |-> row[p].num])

\* C1 (as claimed): softmax_masked gives weight exactly 0 to every position
\* whose mask is 0, whatever the scores of the row.
C1_MaskedWeightIsZero ==
    sm_pc = "done" =>
        \A p \in DOMAIN sm_inputs : sm_mask[p] = 0 => IsZero(sm_attention[p])

\* C2 (as claimed): for a row with at least one mask 1, the weights of
\* softmax_masked are non-negative and sum to exactly 1.  The finite weights
\* of a row share the denominator sum + epsilon, so they sum to 1 exactly
\* when their numerators add up to it.
C2_WeightsSumToOne ==
    (sm_pc = "done" /\ \E p \in DOMAIN sm_mask : sm_mask[p] = 1) =>
        /\ \A p \in DOMAIN sm_attention :
              sm_attention[p].k = "fin" /\ sm_attention[p].num >= 0
        /\ \A p \in DOMAIN sm_attention : sm_attention[p].den = sm_attention[1].den
        /\ RowNumSum(sm_attention) = sm_attention[1].den

\* The batch of argmax ids of the logits of step k (k from 1).
ArgMaxOfStep(k) == [r \in Rows |-> ArgMax(outputs_logits[k][r])]

\* C3: with targets given, teacher_forcing = 0 never feeds the ground truth
\* and teacher_forcing = 1 feeds it after every step, whatever is drawn, in
\* both models.
C3_TeacherForcingBoundaries ==
    targets # None =>
        /\ teacher_forcing = 0 =>
              /\ \A k \in DOMAIN fed_from : fed_from[k] = "argmax"
              /\ i > 0 => decoder_inputs = ArgMaxOfStep(i)
        /\ teacher_forcing = 2 =>
              /\ \A k \in DOMAIN fed_from : fed_from[k] = "targets"
              /\ \A k \in DOMAIN fed : k > 1 => fed[k] = Column(targets, k - 2)
              /\ i > 0 => decoder_inputs = Column(targets, i - 1)

C3_Witness ==
    /\ pc = "done"
    /\ model = "Seq2SeqAttentionModel"
    /\ targets # None
    /\ teacher_forcing = 2
    /\ Len(fed_from) >= 2
    /\ fed[2] # ArgMaxOfStep(1)

\* C4: with targets = None the next input of every step is the argmax of the
\* step's logits, for every teacher_forcing and every draw, and no target is
\* read.
C4_InferenceFeedsArgMax ==
    targets = None =>
        /\ \A k \in DOMAIN fed_from : fed_from[k] = "argmax"
        /\ \A k \in DOMAIN fed : k > 1 => fed[k] = ArgMaxOfStep(k - 1)
        /\ i > 0 => decoder_inputs = ArgMaxOfStep(i)

C4_Witness ==
    /\ pc = "done"
    /\ targets = None
    /\ teacher_forcing = 2
    /\ Len(fed) >= 2
    /\ fed[2] = ArgMaxOfStep(1)

C6_FedTokens ==
    /\ \A k \in DOMAIN fed :
          IF k = 1 THEN fed[k] = [r \in Rows |-> start_index]
          ELSE \/ targets # None /\ fed[k] = Column(targets, k - 2)
               \/ fed[k] = ArgMaxOfStep(k - 1)
    /\ pc = "loop" =>
          IF i = 0 THEN decoder_inputs = [r \in Rows |-> start_index]
          ELSE \/ targets # None /\ decoder_inputs = Column(targets, i - 1)
               \/ decoder_inputs = ArgMaxOfStep(i)

C6_Witness ==
    /\ pc = "done"
    /\ targets # None
    /\ Len(fed) >= 2
    /\ fed[1] = [r \in Rows |-> start_index]
    /\ fed[2] = Column(targets, 0)
    /\ fed[2] # ArgMaxOfStep(1)
    /\ decoder_inputs = ArgMaxOfStep(i)
    /\ decoder_inputs # Column(targets, i - 1)

\* C7: for max_len >= 1, _pad_sentnece returns max_len tokens: the first
\* min(len(sent), max_len - 1) tokens of sent, one end token, then pad tokens.
C7_PadSentence ==
    pd_pc \in {"process", "encode", "done"} =>
        LET n == Min(Len(pd_sent), pd_max_len - 1)
        IN  /\ Len(pd_padded) = pd_max_len
            /\ \A k \in 1..n : pd_padded[k] = pd_sent[k]
            /\ pd_padded[n + 1] = END_TOKEN
            /\ \A k \in (n + 2)..pd_max_len : pd_padded[k] = PAD_TOKEN

C7_Witness ==
    /\ pd_pc = "process"
    /\ pd_max_len = 3
    /\ pd_sent = <<"zzz">>
    /\ pd_padded = <<"zzz", END_TOKEN, PAD_TOKEN>>

\* C8 (as claimed): the mask of encode is 1 exactly at the non-pad positions
\* of the query, and at every decoding step the attention weight of every
\* pad position is 0.
C8_NoAttentionOnPad ==
    (model = "Seq2SeqAttentionModel" /\ pc # "encode") =>
        /\ \A r \in Rows : \A p \in DOMAIN inputs[r] :
              inputs_mask[r][p] = 1 <=> inputs[r][p] # pad_index
        /\ att_normazlied # None =>
              \A r \in Rows : \A p \in DOMAIN inputs[r] :
                  inputs[r][p] = pad_index => IsZero(att_normazlied[r][p])

\* A row of ids is non-pad ids followed only by pad ids, with a non-pad id.
NonPadThenPad(row) ==
    LET L == InputsLength(row)
    IN  /\ L >= 1
        /\ \A k \in DOMAIN row : row[k] # pad_index <=> k <= L

\* C9: Seq2SeqModel.encode reads the encoder output at the position of the
\* last non-pad id of the row, which is the end token and not a pad, for the
\* rows of _process_sent that are non-pad ids followed only by pad ids; the
\* row of every sentence that holds no pad token is such a row.
C9_EncodeReadsEndPosition ==
    pd_pc = "done" =>
        LET pos == PyPos(pd_ids, pd_last)
        IN  /\ PAD_TOKEN \notin Range(pd_sent) => NonPadThenPad(pd_ids)
            /\ NonPadThenPad(pd_ids) =>
                  /\ pos \in DOMAIN pd_ids
                  /\ pd_ids[pos] = end_index
                  /\ pd_ids[pos] # pad_index
                  /\ \A k \in DOMAIN pd_ids : k > pos => pd_ids[k] = pad_index
                  /\ \A k \in DOMAIN pd_ids : k <= pos => pd_ids[k] # pad_index

C9_Witness ==
    /\ pd_pc = "done"
    /\ pd_max_len = 3
    /\ pd_sent = <<"zzz">>
    /\ pd_ids = <<DatasetVocab.token2id[UNK_TOKEN], end_index, pad_index>>
    /\ pd_last = 1

\* C10: after any operations on a Vocab built with distinct special tokens,
\* token2id maps the tokens one-to-one onto 0..len(vocab)-1 and id2token is
\* its inverse.
C10_Token2IdBijection ==
    LET n == Cardinality(DOMAIN token2id)
    IN  /\ {token2id[t] : t \in DOMAIN token2id} = 0..(n - 1)
        /\ DOMAIN id2token = 0..(n - 1)
        /\ \A t \in DOMAIN token2id : id2token[token2id[t]] = t
        /\ \A k \in DOMAIN id2token :
              id2token[k] \in DOMAIN token2id /\ token2id[id2token[k]] = k

C10_Witness ==
    /\ last_op = "add_document"
    /\ nb_ops = 3
    /\ {"a", "b"} \subseteq DOMAIN token2id
    /\ token2id["b"] < token2id["a"]
    /\ Head(Without(count_order, Range(special_tokens))) = "a"

\* C11: a call of add_document or add_documents gives each token not yet in
\* the vocabulary the number of tokens present before it as its id, leaves
\* the ids of the tokens already present alone, and adds to each count the
\* number of occurrences of the token in the call; so, as long as the
\* vocabulary has not been pruned, token_counts is the tally of all the
\* occurrences added (the special tokens once, at construction).
FirstAt(tokens, t) == CHOOSE k \in DOMAIN tokens :
    tokens[k] = t /\ \A j \in 1..(k - 1) : tokens[j] # t

IsAddStep == nb_ops' = nb_ops + 1 /\ last_op' \in {"add_document", "add_documents"}

AddStepContract ==
    LET new == Range(last_tokens') \ DOMAIN token2id
        occ == Occurrences(last_tokens')
    IN  /\ DOMAIN token2id' = DOMAIN token2id \cup Range(last_tokens')
        /\ \A t \in DOMAIN token2id : token2id'[t] = token2id[t]
        /\ \A t \in new :
              token2id'[t] = Cardinality(DOMAIN token2id) +
                  Cardinality({u \in new : FirstAt(last_tokens', u) < FirstAt(last_tokens', t)})
        /\ DOMAIN token_counts' = DOMAIN token_counts \cup Range(last_tokens')
        /\ \A t \in DOMAIN token_counts' :
              token_counts'[t] =
                  (IF t \in DOMAIN token_counts THEN token_counts[t] ELSE 0) +
                  (IF t \in DOMAIN occ THEN occ[t] ELSE 0)

C11_AddDocumentIdsAndCounts ==
    /\ [](~ pruned => token_counts = added)
    /\ [][IsAddStep => AddStepContract]_vars

C11_Witness ==
    /\ last_op = "add_documents"
    /\ ~ pruned
    /\ last_tokens = <<"b", "a">>
    /\ token_counts["a"] = 2
    /\ token2id["a"] < token2id["b"]
    /\ token2id["b"] = Len(special_tokens) + 1

\* C12: after prune_vocab(max_size), len(vocab) <= max_size.
C12_PrunedWithinMaxSize ==
    last_op = "prune_vocab" => VocabLen(TheVocab) <= last_max_size

\* C13: prune_vocab keeps every special token, removes no token with a
\* greater count than a non-special token it keeps, and leaves token_counts
\* with exactly the kept tokens and their counts as they were.
IsPruneStep == nb_ops' = nb_ops + 1 /\ last_op' = "prune_vocab"

PruneStepContract ==
    LET kept == DOMAIN token2id'
        removed == DOMAIN token2id \ kept
    IN  /\ kept \subseteq DOMAIN token2id
        /\ Range(special_tokens) \subseteq kept
        /\ \A k \in kept \ Range(special_tokens) :
              \A r \in removed : token_counts[k] >= token_counts[r]
        /\ DOMAIN token_counts' = kept
        /\ \A t \in kept : token_counts'[t] = token_counts[t]

C13_PruneByCount == [][IsPruneStep => PruneStepContract]_vars

C13_Witness ==
    /\ last_op = "prune_vocab"
    /\ "b" \in DOMAIN token2id
    /\ token_counts["b"] = 2
    /\ "a" \in DOMAIN added
    /\ "a" \notin DOMAIN token2id

\* C14: the dataset holds the lines read (the first max_lines of the file),
\* its length is their number minus 1, and item i is the pair of the
\* processed lines i and i+1, read without an index error; so the response
\* of item i is the query of item i+1.
C14_ConsecutivePairs ==
    ds_pc = "ready" =>
        /\ Len(lines) = Min(Len(ds_file), ds_max_lines)
        /\ dataset_len(max_lines) = Len(lines) - 1
        /\ ds_index >= 0 =>
              /\ ds_error = "none"
              /\ ds_item[1] = process_sent(TheVocab, lines[ds_index + 1], ds_max_len)
              /\ ds_item[2] = process_sent(TheVocab, lines[ds_index + 2], ds_max_len)
              /\ ds_index + 1 < dataset_len(max_lines) =>
                    ds_item[2] = getitem(lines, TheVocab, ds_max_len, ds_index + 1)[1]

C14_Witness ==
    /\ ds_pc = "ready"
    /\ Len(ds_file) = 3
    /\ ds_max_lines = 2
    /\ ds_index = 0
    /\ ds_error = "none"
    /\ ds_item[1] # ds_item[2]

\* C15: a dataset built with a given vocabulary leaves token2id, id2token
\* and token_counts as they were, at construction and at every item read;
\* a token of a line that the vocabulary does not hold is given the id of
\* the UNK token.
KeptWords(sent) == SliceTo(sent, ds_max_len - 1)

IdsOfLine(row, sent) ==
    \A k \in DOMAIN KeptWords(sent) :
        row[k] = IF sent[k] \in DOMAIN token2id THEN token2id[sent[k]]
                 ELSE token2id[UNK_TOKEN]

C15_SharedVocabUnchanged ==
    /\ [][ds_vocab_given => UNCHANGED <<token2id, id2token, token_counts>>]_vars
    /\ []((ds_vocab_given /\ ds_index >= 0 /\ ds_error = "none") =>
            /\ IdsOfLine(ds_item[1], lines[ds_index + 1])
            /\ IdsOfLine(ds_item[2], lines[ds_index + 2]))

C15_Witness ==
    /\ ds_vocab_given
    /\ ds_index >= 0
    /\ ds_error = "none"
    /\ ds_max_len >= 2
    /\ lines[ds_index + 1] = <<"zzz", "a">>
    /\ "zzz" \notin DOMAIN token2id
    /\ ds_item[1][1] = token2id[UNK_TOKEN]
    /\ ds_item[1][2] = token2id["a"]

\* C16: for max_length >= 0, _truncate_seq_pair returns (no pop from an
\* empty list) with len(tokens_a) + len(tokens_b) <= max_length, each list
\* a prefix of what it was, both lists as they were when the total was
\* within max_length at the call, and a total of exactly max_length
\* otherwise.
IsPrefix(s, t) == Len(s) <= Len(t) /\ s = SubSeq(t, 1, Len(s))

C16_TruncatedToMaxLength ==
    max_length >= 0 =>
        /\ tr_pc # "IndexError"
        /\ IsPrefix(tokens_a, tr_a0)
        /\ IsPrefix(tokens_b, tr_b0)
        /\ tr_pc = "done" =>
              /\ Len(tokens_a) + Len(tokens_b) <= max_length
              /\ IF Len(tr_a0) + Len(tr_b0) <= max_length
                 THEN tokens_a = tr_a0 /\ tokens_b = tr_b0
                 ELSE Len(tokens_a) + Len(tokens_b) = max_length

C16_Witness ==
    /\ tr_pc = "done"
    /\ max_length = 3
    /\ Len(tr_a0) = 3
    /\ Len(tr_b0) = 2
    /\ Len(tokens_a) = 2
    /\ Len(tokens_b) = 1

\* C17: every removal takes one token, the last one, from tokens_a when
\* tokens_a is strictly longer than tokens_b and from tokens_b otherwise;
\* so at the end a list that lost a token is at most one token shorter than
\* the other.
RemovalContract ==
    /\ tokens_a' # tokens_a =>
          /\ Len(tokens_a) > Len(tokens_b)
          /\ tokens_a' = PopLast(tokens_a)
          /\ tokens_b' = tokens_b
    /\ tokens_b' # tokens_b =>
          /\ Len(tokens_a) <= Len(tokens_b)
          /\ tokens_b' = PopLast(tokens_b)
          /\ tokens_a' = tokens_a

C17_LongerTruncatedFirst ==
    /\ [][RemovalContract]_vars
    /\ [](tr_pc = "done" =>
            /\ Len(tokens_a) < Len(tr_a0) => Len(tokens_a) >= Len(tokens_b) - 1
            /\ Len(tokens_b) < Len(tr_b0) => Len(tokens_b) >= Len(tokens_a) - 1)

C17_Witness ==
    /\ tr_pc = "done"
    /\ Len(tr_a0) = 3
    /\ Len(tr_b0) = 3
    /\ Len(tokens_a) = 2
    /\ Len(tokens_b) = 1

\* C18: for max_seq_length >= 3 no assertion of convert_examples_to_features
\* fails (and the truncation raises nothing): once the example is converted,
\* input_ids, input_mask and segment_ids have max_seq_length items each,
\* with or without text_b and when text_b has no token.
C18_AssertionsHold ==
    max_seq_length >= 3 =>
        /\ fe_pc \notin {"AssertionError", "IndexError"}
        /\ fe_pc = "done" =>
              /\ Len(input_ids) = max_seq_length
              /\ Len(input_mask) = max_seq_length
              /\ Len(segment_ids) = max_seq_length

C18_Witness ==
    /\ fe_pc = "done"
    /\ fe_b_given
    /\ fe_text_b = <<" ">>
    /\ Len(tokenize(fe_text_a)) = 3
    /\ max_seq_length = 4
    /\ Len(input_ids) = 4
    /\ Len(fe_tokens) = 3

\* C19: in a feature that was built, with n the number of tokens ([CLS] and
\* [SEP] included), input_mask is 1 at the positions before n and 0 from n
\* on, and input_ids and segment_ids are 0 from n on.
C19_MaskAndPadding ==
    fe_pc = "done" =>
        LET n == Len(fe_tokens)
        IN  /\ n = Len(fe_tokens_a) + 2 +
                    (IF fe_tokens_b # <<>> THEN Len(fe_tokens_b) + 1 ELSE 0)
            /\ \A k \in 1..max_seq_length :
                  IF k <= n
                  THEN input_mask[k] = 1 /\ input_ids[k] # 0
                  ELSE input_mask[k] = 0 /\ input_ids[k] = 0 /\ segment_ids[k] = 0

C19_Witness ==
    /\ fe_pc = "done"
    /\ max_seq_length = 6
    /\ Len(fe_tokens) = 5
    /\ segment_ids = <<0, 0, 0, 1, 1, 0>>
    /\ input_mask = <<1, 1, 1, 1, 1, 0>>

====
